---- MODULE Spec2Model ----
(***************************************************************************)
(* FixPriceSpider (spiders/fix_price_spider.py) and MetadataItem           *)
(* (items.py) as a state machine.                                          *)
(*                                                                         *)
(* Conventions of the encoding                                             *)
(*   - a Python str that the code takes apart (a category slug, an alias)  *)
(*     is a sequence of one-character strings; other strs are TLA+ strings *)
(*   - a JSON object is a function whose DOMAIN is the set of keys present *)
(*   - JSON null / Python None is <<>>, and a value x standing where null  *)
(*     may also stand is <<x>>; Python truthiness of such a value is       *)
(*     "differs from <<>>"                                                 *)
(*   - an operation that may raise returns a record with a field `raised`  *)
(***************************************************************************)
EXTENDS Integers, Sequences, FiniteSets, TLC

VARIABLES
    status,            \* "new" before __init__, then "ready" or "failed"
    menu_response,     \* what requests.get(CATEGORIES_URL) answered in __init__
    categories_slugs,  \* self.categories_slugs
    categories_json,   \* self.categories_json
    started,           \* start_requests has run
    scheduled,         \* requests yielded by a callback and not yet answered
    scraped,           \* items yielded by parse
    page_log,          \* listing responses handled, with the requests each yielded
    hierarchy_cache,   \* the lru_cache of build_category_hierarchy, oldest first
    used_since,        \* slug -> slugs resolved since that slug was last resolved
    fresh_resolved,    \* how many of the numbered fresh slug paths were resolved
    fields,            \* MetadataItem.fields, the dict held by the class
    last               \* the latest callback (or resolver) call: input and outcome

vars == <<status, menu_response, categories_slugs, categories_json, started,
          scheduled, scraped, page_log, hierarchy_cache, used_since,
          fresh_resolved, fields, last>>

(***************************************************************************)
(* Bounds of the model.                                                    *)
(***************************************************************************)
MaxNodes == 3          \* nodes of an enumerated category forest
MaxSlugLen == 3        \* characters of an enumerated slug path
MaxTotalCount == 200   \* largest x-count header value of a probe response
MaxPageItems == 2      \* item summaries on one listing page
MaxVariants == 2       \* variants of one item
MaxCount == 2          \* largest count of one variant
MaxPrice == 3          \* largest price of a variant or a special price
NumExtraKeys == 2      \* extra attribute names a variant may carry
MaxFreshSlugs == 130   \* distinct never-seen slug paths resolved in one run

(***************************************************************************)
(* Program constants.                                                      *)
(***************************************************************************)
MAX_LIMIT_VALUE == 99
\* functools.lru_cache() without arguments keeps maxsize = 128
LruMaxSize == 128

Null == <<>>
Some(x) == <<x>>
Truthy(v) == v # <<>>

\* str.split(sep) for a one-character separator: always at least one segment
RECURSIVE split(_, _)
split(s, sep) ==
    IF \A i \in 1..Len(s) : s[i] # sep
    THEN <<s>>
    ELSE LET i == CHOOSE i \in 1..Len(s) :
                      s[i] = sep /\ \A j \in 1..(i - 1) : s[j] # sep
         IN  <<SubSeq(s, 1, i - 1)>> \o split(SubSeq(s, i + 1, Len(s)), sep)

(***************************************************************************)
(* The category menu: a JSON list of {alias, title, items} nodes.          *)
(***************************************************************************)
AliasChars == {"a", "b"}
SlugChars == AliasChars \cup {"/"}
Aliases == {<<c>> : c \in AliasChars}
TitleNames == <<"T1", "T2", "T3", "T4", "T5", "T6">>

\* the nodes from..k whose parent is n, in document order, as nested JSON
RECURSIVE MenuLevel(_, _, _, _, _)
MenuLevel(k, parent, alias, n, from) ==
    IF from > k THEN <<>>
    ELSE (IF parent[from] = n
          THEN <<[alias |-> alias[from], title |-> TitleNames[from],
                  items |-> MenuLevel(k, parent, alias, from, from + 1)]>>
          ELSE <<>>)
         \o MenuLevel(k, parent, alias, n, from + 1)

\* every forest of at most MaxNodes nodes (duplicate sibling aliases included)
Forests ==
    UNION {
        {MenuLevel(k, parent, alias, 0, 1) :
            parent \in {p \in [1..k -> 0..k] : \A c \in 1..k : p[c] < c},
            alias \in [1..k -> Aliases]}
        : k \in 0..MaxNodes}

\* a menu answer that is JSON but no list of category nodes (an error object)
MalformedMenus == {<<[message |-> "Too Many Requests"]>>}

\* the menu used where the forest is not what varies:  a(T1){ b(T2) }, b(T3)
SampleMenu ==
    <<[alias |-> <<"a">>, title |-> "T1",
       items |-> <<[alias |-> <<"b">>, title |-> "T2", items |-> <<>>]>>],
      [alias |-> <<"b">>, title |-> "T3", items |-> <<>>]>>

SlugPaths == UNION {[1..n -> SlugChars] : n \in 0..MaxSlugLen}

\* index of the first category of the list whose alias is the segment, else 0
AliasIs(category, segment) ==
    "alias" \in DOMAIN category /\ category["alias"] = segment

FirstMatch(categories, segment) ==
    IF \E i \in 1..Len(categories) : AliasIs(categories[i], segment)
    THEN CHOOSE i \in 1..Len(categories) :
            /\ AliasIs(categories[i], segment)
            /\ \A j \in 1..(i - 1) : ~AliasIs(categories[j], segment)
    ELSE 0

\* category["alias"] raises for an element examined before the loop breaks
AliasLookupRaises(categories, segment) ==
    LET m == Len(categories) IN
    \E i \in 1..m :
        /\ "alias" \notin DOMAIN categories[i]
        /\ \A j \in 1..(i - 1) :
              "alias" \in DOMAIN categories[j] /\ categories[j]["alias"] # segment

\* a faulty walk: it goes no further once a segment fails to match
RECURSIVE walk_stop_at_miss(_, _, _, _)
walk_stop_at_miss(segments, i, categories, category_hierarchy) ==
    IF i > Len(segments) THEN [raised |-> FALSE, value |-> category_hierarchy]
    ELSE IF AliasLookupRaises(categories, segments[i])
    THEN [raised |-> TRUE, value |-> <<>>]
    ELSE LET m == FirstMatch(categories, segments[i]) IN
         IF m = 0
         THEN [raised |-> FALSE, value |-> category_hierarchy]
         ELSE walk_stop_at_miss(segments, i + 1, categories[m]["items"],
                                Append(category_hierarchy, categories[m]["title"]))

\* the body of the outer for loop, from segment i on
RECURSIVE walk(_, _, _, _)
walk(segments, i, categories, category_hierarchy) ==
    IF i > Len(segments) THEN [raised |-> FALSE, value |-> category_hierarchy]
    ELSE IF AliasLookupRaises(categories, segments[i])
    THEN [raised |-> TRUE, value |-> <<>>]
    ELSE LET m == FirstMatch(categories, segments[i]) IN
         IF m = 0
         THEN walk(segments, i + 1, categories, category_hierarchy)
         ELSE walk(segments, i + 1, categories[m]["items"],
                   Append(category_hierarchy, categories[m]["title"]))

\* the undecorated method
build_category_hierarchy(menu, base_category_slug) ==
    walk(split(base_category_slug, "/"), 1, menu, <<>>)

(***************************************************************************)
(* functools.lru_cache: a list of [key, result], least recently used first *)
(***************************************************************************)
CacheIndex(cache, key) ==
    IF \E i \in 1..Len(cache) : cache[i].key = key
    THEN CHOOSE i \in 1..Len(cache) : cache[i].key = key
    ELSE 0

Without(seq, i) == SubSeq(seq, 1, i - 1) \o SubSeq(seq, i + 1, Len(seq))

\* a hit moves the entry to the most recently used end
lru_touch(cache, i) == Append(Without(cache, i), cache[i])

\* a faulty store: it keeps the latest result only (maxsize = 1)
lru_store_keeps_one(cache, key, result) == <<[key |-> key, result |-> result]>>

\* a miss stores the result, dropping the least recently used entry when full
lru_store(cache, key, result) ==
    IF Len(cache) >= LruMaxSize
    THEN Append(Tail(cache), [key |-> key, result |-> result])
    ELSE Append(cache, [key |-> key, result |-> result])

\* self.build_category_hierarchy(base_category_slug=...) as decorated;
\* walked: the forest was walked; a call that raises stores nothing
cached_build_category_hierarchy(cache, menu, base_category_slug) ==
    LET i == CacheIndex(cache, base_category_slug) IN
    IF i # 0
    THEN [raised |-> FALSE, value |-> cache[i].result, walked |-> FALSE,
          cache |-> lru_touch(cache, i)]
    ELSE LET r == build_category_hierarchy(menu, base_category_slug) IN
         IF r.raised
         THEN [raised |-> TRUE, value |-> <<>>, walked |-> TRUE, cache |-> cache]
         ELSE [raised |-> FALSE, value |-> r.value, walked |-> TRUE,
               cache |-> lru_store(cache, base_category_slug, r.value)]

(***************************************************************************)
(* items.py: MetadataItem.  An instance is [_values, _extra_fields]; the   *)
(* dict `fields` belongs to the class and is threaded through every call.  *)
(***************************************************************************)
EmptyMap == [k \in {} |-> Null]

\* fields as the metaclass leaves it: the one declared Field, `_description`
DeclaredFields == {"_description"}

\* MetadataItem(): __init__ sets _extra_fields = [] and Item sets _values = {}
MetadataItem == [_values |-> EmptyMap, _extra_fields |-> <<>>]

\* MetadataItem.__setitem__(self, key, value)
MetadataItem__setitem__(self, flds, key, value) ==
    [self |-> [_values |-> (key :> value) @@ self._values,
               _extra_fields |-> IF key \notin flds
                                 THEN Append(self._extra_fields, key)
                                 ELSE self._extra_fields],
     fields |-> flds \cup {key}]

\* metadata_item.description = value: __setattr__, then (when `description`
\* is no field) the property setter, whose `self._description = value` comes
\* back through __setattr__ to __setitem__("_description", value)
MetadataItem_set_description(self, flds, value) ==
    IF "description" \in flds
    THEN MetadataItem__setitem__(self, flds, "description", value)
    ELSE MetadataItem__setitem__(self, flds, "_description", value)

(***************************************************************************)
(* parse: one item-detail response to one FixPriceParserItem.              *)
(***************************************************************************)
\* a faulty tuple: fixPrice is missing from it
ExcludedKeysWithoutFixPrice == {"id", "image", "title", "properties", "count", "price"}

\* the tuple of names the loop over the first variant skips
ExcludedKeys == {"id", "image", "title", "properties", "count", "price", "fixPrice"}

ExtraKeyNames == <<"barcode", "unit", "width", "height", "length", "weight">>
ExtraKeys == {ExtraKeyNames[i] : i \in 1..NumExtraKeys}

\* dict order of a variant's keys (the order of the keys in the JSON text)
VariantKeyOrder ==
    <<"id", "title", "price", "fixPrice", "count", "image", "properties">> \o ExtraKeyNames

\* datetime.strptime(..., "%a, %d %b %Y %H:%M:%S %Z").timestamp(), the header
\* held as its parsed parts; the naive datetime is read in the local zone,
\* taken here to be UTC
strptime_timestamp(date) ==
    date.days * 86400 + date.hour * 3600 + date.minute * 60 + date.second

\* float(x) of a JSON number; the prices drawn are whole numbers
float(x) == x

Abs(n) == IF n < 0 THEN -n ELSE n

RECURSIVE GCD(_, _)
GCD(a, b) == IF b = 0 THEN a ELSE GCD(b, a % b)

\* the exact value of n / d as a fraction in lowest terms (d > 0)
Fraction(n, d) ==
    LET g == GCD(Abs(n), d) IN [num |-> n \div g, den |-> d \div g]

\* a faulty percentage: it divides by the current price
discount_percent_of_current(original_price, current_price) ==
    Fraction((original_price - current_price) * 100,
             IF current_price = 0 THEN 1 ELSE current_price)

\* (original_price - current_price) / original_price * 100, original_price > 0
discount_percent(original_price, current_price) ==
    Fraction((original_price - current_price) * 100, original_price)

\* f"Скидка {...}%" (the Cyrillic word transliterated)
sale_tag_text(percent) == <<"Skidka ", percent, "%">>

\* sum(item_variant_json["count"] for item_variant_json in item_variants_json)
RECURSIVE sum_counts(_, _)
sum_counts(item_variants_json, i) ==
    IF i > Len(item_variants_json) THEN 0
    ELSE item_variants_json[i]["count"] + sum_counts(item_variants_json, i + 1)

\* a faulty test: in stock whenever the count is not negative
in_stock_nonnegative(stock_count) == stock_count >= 0

\* True if stock_count > 0 else False
in_stock_of(stock_count) == stock_count > 0

\* the loop over item_variants_json[0].items(), from position i of the order
RECURSIVE copy_variant_keys(_, _, _, _)
copy_variant_keys(variant, i, self, flds) ==
    IF i > Len(VariantKeyOrder) THEN [self |-> self, fields |-> flds]
    ELSE LET k == VariantKeyOrder[i] IN
         IF k \in DOMAIN variant /\ k \notin ExcludedKeys
         THEN LET r == MetadataItem__setitem__(self, flds, k, variant[k])
              IN  copy_variant_keys(variant, i + 1, r.self, r.fields)
         ELSE copy_variant_keys(variant, i + 1, self, flds)

Raise(error, cache, flds) ==
    [raised |-> TRUE, error |-> error, cache |-> cache, fields |-> flds]

\* statements 256-290 of parse, once price_item is built
parse_tail(item_json, head, price_item, cache, flds) ==
    LET item_variants_json == item_json["variants"] IN
    IF \E i \in 1..Len(item_variants_json) : "count" \notin DOMAIN item_variants_json[i]
    THEN Raise("KeyError: count", cache, flds)
    ELSE
    LET stock_count == sum_counts(item_variants_json, 1)
        stock_item == [in_stock |-> in_stock_of(stock_count), count |-> stock_count]
        item_images == IF "images" \in DOMAIN item_json THEN item_json["images"] ELSE Null
    IN
    IF \E i \in 1..Len(item_images) : "src" \notin DOMAIN item_images[i]
    THEN Raise("KeyError: src", cache, flds)
    ELSE IF "videoLink" \notin DOMAIN item_json
    THEN Raise("KeyError: videoLink", cache, flds)
    ELSE IF "description" \notin DOMAIN item_json
    THEN Raise("KeyError: description", cache, flds)
    ELSE
    LET assets_item ==
            [main_image |-> IF Truthy(item_images) THEN Some(item_images[1]["src"]) ELSE Null,
             set_images |-> IF Truthy(item_images)
                            THEN Some([i \in 1..Len(item_images) |-> item_images[i]["src"]])
                            ELSE Null,
             view_360 |-> Null,
             video |-> item_json["videoLink"]]
        m1 == MetadataItem_set_description(MetadataItem, flds, item_json["description"])
        m2 == copy_variant_keys(item_variants_json[1], 1, m1.self, m1.fields)
        item_properties_json ==
            IF "properties" \in DOMAIN item_json THEN item_json["properties"] ELSE Null
    IN
    IF Truthy(item_properties_json) /\ "value" \notin DOMAIN item_properties_json[1]
    THEN Raise("KeyError: value", cache, m2.fields)
    ELSE
    LET m3 == IF Truthy(item_properties_json)
              THEN MetadataItem__setitem__(m2.self, m2.fields, "country_of_origin",
                                           item_properties_json[1]["value"])
              ELSE m2
    IN  [raised |-> FALSE, error |-> "",
         cache |-> cache, fields |-> m3.fields,
         item |-> [timestamp |-> head.timestamp, RPC |-> head.RPC, url |-> head.url,
                   title |-> head.title, marketing_tags |-> <<>>,
                   brand |-> head.brand, section |-> head.section,
                   price_data |-> price_item, stock |-> stock_item,
                   assets |-> assets_item, metadata |-> m3.self,
                   variants |-> Len(item_variants_json)]]

\* statements 245-254 of parse
parse_price(item_json, head, cache, flds) ==
    IF "variants" \notin DOMAIN item_json THEN Raise("KeyError: variants", cache, flds)
    ELSE IF Len(item_json["variants"]) = 0 THEN Raise("IndexError", cache, flds)
    ELSE IF "price" \notin DOMAIN item_json["variants"][1]
    THEN Raise("KeyError: price", cache, flds)
    ELSE
    LET original_price == float(item_json["variants"][1]["price"]) IN
    IF "specialPrice" \notin DOMAIN item_json
    THEN Raise("KeyError: specialPrice", cache, flds)
    ELSE
    LET special_price_json == item_json["specialPrice"] IN
    IF Truthy(special_price_json)
    THEN IF "price" \notin DOMAIN special_price_json[1]
         THEN Raise("KeyError: price", cache, flds)
         ELSE LET current_price == float(special_price_json[1]["price"]) IN
              IF original_price = 0
              THEN Raise("ZeroDivisionError", cache, flds)
              ELSE parse_tail(item_json, head,
                       [original |-> original_price, current |-> current_price,
                        sale_tag |-> Some(sale_tag_text(
                            discount_percent(original_price, current_price)))],
                       cache, flds)
    ELSE parse_tail(item_json, head,
             [original |-> original_price, current |-> original_price,
              sale_tag |-> Null],
             cache, flds)

\* statements 226-242 of parse: the exception raised before the hierarchy is
\* resolved, or "" when none is
parse_head_error(response) ==
    LET headers == response.headers
        item_json == response.json
    IN
    IF "date" \notin DOMAIN headers THEN "KeyError: date"
    ELSE IF ~headers["date"].wellformed THEN "ValueError: date"
    ELSE IF "sku" \notin DOMAIN item_json THEN "KeyError: sku"
    ELSE IF "url" \notin DOMAIN item_json THEN "KeyError: url"
    ELSE IF "title" \notin DOMAIN item_json THEN "KeyError: title"
    ELSE IF "brand" \notin DOMAIN item_json THEN "KeyError: brand"
    ELSE IF Truthy(item_json["brand"]) /\ "title" \notin DOMAIN item_json["brand"][1]
    THEN "KeyError: brand title"
    ELSE ""

\* FixPriceSpider.parse(response): the item it yields, or the exception,
\* with the lru cache and MetadataItem.fields as the call leaves them
parse_outcome(response, menu, cache, flds) ==
    LET headers == response.headers
        item_json == response.json
    IN
    IF parse_head_error(response) # ""
    THEN Raise(parse_head_error(response), cache, flds)
    ELSE
    LET h == cached_build_category_hierarchy(cache, menu, response.meta.category_slug) IN
    IF h.raised THEN Raise("KeyError: alias", h.cache, flds)
    ELSE parse_price(item_json,
             [timestamp |-> strptime_timestamp(headers["date"]),
              RPC |-> item_json["sku"],
              url |-> <<"https://fix-price.com/catalog/", item_json["url"]>>,
              title |-> item_json["title"],
              brand |-> IF Truthy(item_json["brand"])
                        THEN Some(item_json["brand"][1]["title"]) ELSE Null,
              section |-> h.value],
             h.cache, flds)

(***************************************************************************)
(* Requests.  A URL is the template's name with its arguments.             *)
(***************************************************************************)
\* BASE_URL.format(category_slug=..., limit_value=..., page_number=...)
BASE_URL(category_slug, limit_value, page_number) ==
    [endpoint |-> "buyer/v1/product/in", category_slug |-> category_slug,
     limit_value |-> limit_value, page_number |-> page_number]

\* BASE_ITEM_JSON_URL.format(item_url=...)
BASE_ITEM_JSON_URL(item_url) ==
    [endpoint |-> "buyer/v1/product", item_url |-> item_url]

\* str.format filling one placeholder of a partly filled URL
Format(url, placeholder, value) == [url EXCEPT ![placeholder] = value]

\* the Request of start_requests for one category slug
probe_request(category_slug) ==
    LET url_with_defined_category ==
            BASE_URL(category_slug, "{limit_value}", "{page_number}")
    IN  [method |-> "POST",
         url |-> Format(Format(url_with_defined_category, "limit_value", 1),
                        "page_number", 1),
         callback |-> "get_pages_amount",
         meta |-> [category_slug |-> category_slug,
                   url_with_defined_category |-> url_with_defined_category]]

\* a faulty page count: it rounds down and adds one
pages_amount_floor_plus_one(total_count) == total_count \div MAX_LIMIT_VALUE + 1

\* math.ceil(total_count / self.MAX_LIMIT_VALUE), exact for the counts drawn
pages_amount(total_count) ==
    IF total_count % MAX_LIMIT_VALUE = 0
    THEN total_count \div MAX_LIMIT_VALUE
    ELSE total_count \div MAX_LIMIT_VALUE + 1

\* what get_pages_amount yields for a probe response, or the exception
get_pages_amount_outcome(response) ==
    IF "x-count" \notin DOMAIN response.headers
    THEN [raised |-> TRUE, out |-> <<>>]
    ELSE IF ~response.headers["x-count"].numeric
    THEN [raised |-> TRUE, out |-> <<>>]
    ELSE
    LET url_with_defined_category_and_max_limit ==
            Format(response.meta.url_with_defined_category,
                   "limit_value", MAX_LIMIT_VALUE)
        amount == pages_amount(response.headers["x-count"].value)
    IN  [raised |-> FALSE,
         out |-> [page_number \in 1..amount |->
                    [method |-> "POST",
                     url |-> Format(url_with_defined_category_and_max_limit,
                                    "page_number", page_number),
                     callback |-> "get_remaining_item_data",
                     meta |-> [category_slug |-> response.meta.category_slug]]]]

\* what get_remaining_item_data has yielded when its generator ends: one
\* Request per summary, up to the first summary without "url", where it raises
RECURSIVE item_requests(_, _, _)
item_requests(items_from_catalog_json, i, category_slug) ==
    IF i > Len(items_from_catalog_json) THEN [raised |-> FALSE, out |-> <<>>]
    ELSE IF "url" \notin DOMAIN items_from_catalog_json[i]
    THEN [raised |-> TRUE, out |-> <<>>]
    ELSE LET rest == item_requests(items_from_catalog_json, i + 1, category_slug) IN
         [raised |-> rest.raised,
          out |-> <<[method |-> "GET",
                     url |-> BASE_ITEM_JSON_URL(items_from_catalog_json[i]["url"]),
                     callback |-> "parse",
                     meta |-> [category_slug |-> category_slug]]>> \o rest.out]

Range(seq) == {seq[i] : i \in 1..Len(seq)}

\* the bookkeeping of one call of the decorated resolver; the numbered
\* fresh slug paths are resolved once each and are not tracked
IsFresh(slug) == Len(slug) > 0 /\ slug[1] = "c"
Between(slug) ==
    IF slug \in DOMAIN used_since THEN Cardinality(used_since[slug]) ELSE -1
NoteResolved(slug) ==
    IF IsFresh(slug)
    THEN [t \in DOMAIN used_since |-> used_since[t] \cup {slug}]
    ELSE [t \in DOMAIN used_since \cup {slug} |->
            IF t = slug THEN {} ELSE used_since[t] \cup {slug}]

NoCall == [callback |-> "none"]

(***************************************************************************)
(* The operations.  Each takes the set its input is drawn from.            *)
(***************************************************************************)
NonEmpty(x) == x # <<>>

\* the value __init__ keeps for the categories_slugs argument: a tuple of strs
\* as it is, a str split at commas without its empty pieces
categories_slugs_of(argument) ==
    IF argument.type = "tuple" THEN argument.value
    ELSE SelectSeq(split(argument.value, ","), NonEmpty)

\* FixPriceSpider.__init__(city_id, categories_slugs)
__init__(CityIds, SlugArguments, MenuResponses) ==
    /\ status = "new"
    /\ \E city_id \in CityIds, argument \in SlugArguments, menu \in MenuResponses :
          IF ~city_id.integer
          THEN \* int(city_id) raises ValueError
               /\ status' = "failed"
               /\ UNCHANGED <<menu_response, categories_slugs, categories_json>>
          ELSE IF argument.type \notin {"tuple", "str"}
          THEN \* neither a tuple of strs nor a str: ValueError
               /\ status' = "failed"
               /\ UNCHANGED <<menu_response, categories_slugs, categories_json>>
          ELSE IF menu.kind \in {"unreachable", "not_json"}
          THEN \* requests.get raises, or .json() raises JSONDecodeError
               /\ status' = "failed"
               /\ menu_response' = menu
               /\ UNCHANGED <<categories_slugs, categories_json>>
          ELSE /\ status' = "ready"
               /\ menu_response' = menu
               /\ categories_slugs' = categories_slugs_of(argument)
               /\ categories_json' = menu.body
    /\ UNCHANGED <<started, scheduled, scraped, page_log, hierarchy_cache,
                   used_since, fresh_resolved, fields, last>>

\* FixPriceSpider.start_requests()
start_requests ==
    /\ status = "ready"
    /\ ~started
    /\ started' = TRUE
    /\ scheduled' = scheduled \cup
            {probe_request(categories_slugs[i]) : i \in 1..Len(categories_slugs)}
    /\ UNCHANGED <<status, menu_response, categories_slugs, categories_json,
                   scraped, page_log, hierarchy_cache, used_since, fresh_resolved,
                   fields, last>>

\* FixPriceSpider.get_pages_amount(response)
get_pages_amount(ProbeHeaders) ==
    /\ status = "ready"
    /\ \E request \in scheduled, headers \in ProbeHeaders :
          /\ request.callback = "get_pages_amount"
          /\ LET response == [headers |-> headers, meta |-> request.meta]
                 r == get_pages_amount_outcome(response)
             IN  /\ scheduled' = (scheduled \ {request}) \cup Range(r.out)
                 /\ last' = [callback |-> "get_pages_amount", request |-> request,
                             response |-> response, raised |-> r.raised,
                             out |-> r.out]
    /\ UNCHANGED <<status, menu_response, categories_slugs, categories_json,
                   started, scraped, page_log, hierarchy_cache, used_since,
                   fresh_resolved, fields>>

\* FixPriceSpider.get_remaining_item_data(response)
get_remaining_item_data(Listings) ==
    /\ status = "ready"
    /\ \E request \in scheduled :
          /\ request.callback = "get_remaining_item_data"
          /\ \E listing \in Listings[request.url.page_number] :
                LET r == item_requests(listing, 1, request.meta.category_slug) IN
                /\ scheduled' = (scheduled \ {request}) \cup Range(r.out)
                /\ page_log' = page_log \cup
                        {[request |-> request, listing |-> listing,
                          raised |-> r.raised, out |-> r.out]}
                /\ last' = [callback |-> "get_remaining_item_data",
                            request |-> request, listing |-> listing,
                            raised |-> r.raised, out |-> r.out]
    /\ UNCHANGED <<status, menu_response, categories_slugs, categories_json,
                   started, scraped, hierarchy_cache, used_since, fresh_resolved,
                   fields>>

\* FixPriceSpider.parse(response)
parse(Answers) ==
    /\ status = "ready"
    /\ \E request \in scheduled :
          /\ request.callback = "parse"
          /\ \E answer \in Answers[request.url.item_url] :
                LET response == [headers |-> answer.headers, json |-> answer.json,
                                 meta |-> request.meta]
                    resolved == parse_head_error(response) = ""
                IN
                \E r \in {parse_outcome(response, categories_json, hierarchy_cache, fields)} :
                /\ scheduled' = scheduled \ {request}
                /\ hierarchy_cache' = r.cache
                /\ used_since' = IF resolved
                                 THEN NoteResolved(request.meta.category_slug)
                                 ELSE used_since
                /\ fields' = r.fields
                /\ scraped' = IF r.raised THEN scraped
                              ELSE scraped \cup {[request |-> request, url |-> r.item.url]}
                /\ last' = [callback |-> "parse", request |-> request,
                            response |-> response, raised |-> r.raised,
                            item |-> IF r.raised THEN Null ELSE r.item,
                            fields_at_build |-> fields]
    /\ UNCHANGED <<status, menu_response, categories_slugs, categories_json,
                   started, page_log, fresh_resolved>>

\* a call self.build_category_hierarchy(base_category_slug=slug) on its own
resolve(slug) ==
    LET r == cached_build_category_hierarchy(hierarchy_cache, categories_json, slug) IN
    /\ status = "ready"
    /\ hierarchy_cache' = r.cache
    /\ used_since' = NoteResolved(slug)
    /\ fresh_resolved' = IF IsFresh(slug) THEN fresh_resolved + 1 ELSE fresh_resolved
    /\ last' = [callback |-> "build_category_hierarchy", slug |-> slug,
                raised |-> r.raised, value |-> r.value, walked |-> r.walked,
                between |-> Between(slug)]
    /\ UNCHANGED <<status, menu_response, categories_slugs, categories_json,
                   started, scheduled, scraped, page_log, fields>>

(***************************************************************************)
(* Inputs.                                                                 *)
(***************************************************************************)
SlugA == <<"a">>
SlugAB == <<"a", "/", "b">>

CityIds == {[integer |-> TRUE, value |-> 1], [integer |-> FALSE]}

\* the argument as a tuple, as the strs "a/b," and "", and as something else
SlugArguments ==
    {[type |-> "tuple", value |-> <<SlugAB>>],
     [type |-> "str", value |-> SlugAB \o <<",">>],
     [type |-> "str", value |-> <<>>],
     [type |-> "int"]}

MenuResponses ==
    {[kind |-> "unreachable"], [kind |-> "not_json"]}
    \cup {[kind |-> "json", body |-> m] : m \in {SampleMenu} \cup MalformedMenus}

XCount(n) == "x-count" :> [numeric |-> TRUE, value |-> n]
NoHeaders == [k \in {} |-> Null]
BadXCount == "x-count" :> [numeric |-> FALSE]

PipelineProbeHeaders ==
    {NoHeaders, BadXCount}
    \cup {XCount(n) : n \in {0, MAX_LIMIT_VALUE, MAX_LIMIT_VALUE + 1}}
AllProbeHeaders ==
    {NoHeaders, BadXCount} \cup {XCount(n) : n \in 0..MaxTotalCount}

ItemUrlNames ==
    << <<"p1-i1", "p1-i2", "p1-i3", "p1-i4">>, <<"p2-i1", "p2-i2", "p2-i3", "p2-i4">> >>

\* the listings of a page: each summary has its "url" or lacks it
ListingsOfPage(page) ==
    UNION {
        {[i \in 1..n |-> IF has_url[i]
                         THEN [id |-> i, url |-> ItemUrlNames[page][i]]
                         ELSE [id |-> i]] : has_url \in [1..n -> BOOLEAN]}
        : n \in 0..MaxPageItems}
PipelineListings == [page \in 1..Len(ItemUrlNames) |-> ListingsOfPage(page)]

Drop(json, key) == [k \in DOMAIN json \ {key} |-> json[k]]
With(json, key, value) == (key :> value) @@ json

GoodDate == [wellformed |-> TRUE, days |-> 13150, hour |-> 15, minute |-> 4, second |-> 5]
BadDate == [wellformed |-> FALSE]
DateHeader == "date" :> GoodDate

BaseVariant == [id |-> 1, price |-> 2, count |-> 1]
BaseJson(item_url) ==
    [sku |-> "sku", url |-> item_url, title |-> "title",
     brand |-> Some([title |-> "brand"]), variants |-> <<BaseVariant>>,
     specialPrice |-> Null, images |-> <<[src |-> "img-1"]>>, videoLink |-> Null,
     description |-> "description", properties |-> <<>>]

Answer(headers, json) == [headers |-> headers, json |-> json]

\* answers that lack one of the four required sources, and the good one
RequiredFieldAnswers(item_url) ==
    {Answer(DateHeader, BaseJson(item_url)),
     Answer(NoHeaders, BaseJson(item_url)),
     Answer("date" :> BadDate, BaseJson(item_url))}
    \cup {Answer(DateHeader, Drop(BaseJson(item_url), k)) : k \in {"sku", "title", "url"}}

AllItemUrls == UNION {Range(ItemUrlNames[p]) : p \in 1..Len(ItemUrlNames)}
PipelineAnswers == [item_url \in AllItemUrls |-> RequiredFieldAnswers(item_url)]

(***************************************************************************)
(* The crawl: construction, then the three callbacks.                      *)
(***************************************************************************)
Init ==
    /\ status = "new"
    /\ menu_response = [kind |-> "none"]
    /\ categories_slugs = <<>>
    /\ categories_json = <<>>
    /\ started = FALSE
    /\ scheduled = {}
    /\ scraped = {}
    /\ page_log = {}
    /\ hierarchy_cache = <<>>
    /\ used_since = [t \in {} |-> {}]
    /\ fresh_resolved = 0
    /\ fields = DeclaredFields
    /\ last = NoCall

Next ==
    \/ __init__(CityIds, SlugArguments, MenuResponses)
    \/ start_requests
    \/ get_pages_amount(PipelineProbeHeaders)
    \/ get_remaining_item_data(PipelineListings)
    \/ parse(PipelineAnswers)

Spec == Init /\ [][Next]_vars

\* a constructed spider with the given menu, slugs and outstanding requests
Ready(menu, slugs, requests) ==
    /\ status = "ready"
    /\ menu_response = [kind |-> "json", body |-> menu]
    /\ categories_slugs = slugs
    /\ categories_json = menu
    /\ started = TRUE
    /\ scheduled = requests
    /\ scraped = {}
    /\ page_log = {}
    /\ hierarchy_cache = <<>>
    /\ used_since = [t \in {} |-> {}]
    /\ fresh_resolved = 0
    /\ fields = DeclaredFields
    /\ last = NoCall

(***************************************************************************)
(* get_pages_amount on every probe answer.                                 *)
(***************************************************************************)
InitPages ==
    \E slug \in {SlugA, SlugAB} : Ready(SampleMenu, <<slug>>, {probe_request(slug)})

NextPages == get_pages_amount(AllProbeHeaders)

SpecPages == InitPages /\ [][NextPages]_vars

(***************************************************************************)
(* build_category_hierarchy on every forest and slug path.                 *)
(***************************************************************************)
InitHierarchy == \E menu \in Forests : Ready(menu, <<>>, {})

NextHierarchy == \E slug \in SlugPaths : last = NoCall /\ resolve(slug)

SpecHierarchy == InitHierarchy /\ [][NextHierarchy]_vars

(***************************************************************************)
(* The decorated resolver over a long run: one slug path that comes back,  *)
(* among slug paths each seen for the first time.                          *)
(***************************************************************************)
Digits == <<"0", "1", "2", "3", "4", "5", "6", "7", "8", "9">>
FreshSlug(n) ==
    <<"c", Digits[((n \div 100) % 10) + 1], Digits[((n \div 10) % 10) + 1],
      Digits[(n % 10) + 1]>>

InitCache == Ready(SampleMenu, <<>>, {})

resolve_again == resolve(SlugAB)

resolve_fresh ==
    /\ fresh_resolved < MaxFreshSlugs
    /\ resolve(FreshSlug(fresh_resolved + 1))

NextCache == resolve_again \/ resolve_fresh

SpecCache == InitCache /\ [][NextCache]_vars

(***************************************************************************)
(* parse on item answers of every shape, two items in a run.               *)
(***************************************************************************)
OtherKeyAnswers(item_url) ==
    {Answer(DateHeader, Drop(BaseJson(item_url), k)) :
        k \in {"brand", "variants", "specialPrice", "images", "videoLink",
               "description", "properties"}}
    \cup {Answer(DateHeader, With(BaseJson(item_url), "brand", b)) :
            b \in {Null, Some([name |-> "brand"])}}

SpecialPrices ==
    {Null, Some([currency |-> "RUB"])} \cup {Some([price |-> p]) : p \in 0..MaxPrice}

PriceAnswers(item_url) ==
    {Answer(DateHeader,
            With(With(BaseJson(item_url), "variants", <<With(BaseVariant, "price", o)>>),
                 "specialPrice", sp)) :
        o \in 0..MaxPrice, sp \in SpecialPrices}

CountedVariants == {[id |-> 1, price |-> 2]} \cup {[id |-> 1, price |-> 2, count |-> c] : c \in 0..MaxCount}

StockAnswers(item_url) ==
    {Answer(DateHeader, With(BaseJson(item_url), "variants", vs)) :
        vs \in UNION {[1..n -> CountedVariants] : n \in 0..MaxVariants}}

AttributeValue(k) ==
    IF k \in {"id", "price", "count", "fixPrice"} THEN 1 ELSE "value of " \o k

VariantWith(keys) == [k \in {"id", "price", "count"} \cup keys |-> AttributeValue(k)]

FirstVariants == {VariantWith(keys) : keys \in SUBSET (ExtraKeys \cup {"fixPrice", "title"})}

PropertyLists ==
    {<<>>, <<[value |-> "RU"]>>, <<[value |-> "RU"], [value |-> "CN"]>>,
     <<[title |-> "country"]>>}

MetadataAnswers(item_url) ==
    LET with_variants ==
            {With(BaseJson(item_url), "variants", vs) :
                vs \in {<<v>> : v \in FirstVariants}
                       \cup {<<v, VariantWith(ExtraKeys)>> : v \in FirstVariants}}
    IN  {Answer(DateHeader, j) : j \in {Drop(w, "properties") : w \in with_variants}}
        \cup {Answer(DateHeader, With(w, "properties", ps)) :
                w \in with_variants, ps \in PropertyLists}

AssetAnswers(item_url) ==
    LET with_video ==
            {Drop(BaseJson(item_url), "videoLink")}
            \cup {With(BaseJson(item_url), "videoLink", v) : v \in {Null, Some("video.mp4")}}
    IN  {Answer(DateHeader, j) : j \in {Drop(w, "images") : w \in with_video}}
        \cup {Answer(DateHeader, With(w, "images", is)) :
                w \in with_video,
                is \in {<<>>, <<[src |-> "img-1"]>>, <<[src |-> "img-1"], [src |-> "img-2"]>>}}

ParseItemUrls == {"i1", "i2"}

ParseAnswers ==
    [item_url \in ParseItemUrls |->
        RequiredFieldAnswers(item_url) \cup OtherKeyAnswers(item_url)
        \cup PriceAnswers(item_url) \cup StockAnswers(item_url)
        \cup MetadataAnswers(item_url) \cup AssetAnswers(item_url)]

InitParse ==
    Ready(SampleMenu, <<SlugAB>>,
          Range(item_requests(<<[url |-> "i1"], [url |-> "i2"]>>, 1, SlugAB).out))

NextParse == parse(ParseAnswers)

SpecParse == InitParse /\ [][NextParse]_vars

(***************************************************************************)
(* The claims.                                                             *)
(***************************************************************************)
PagesCalled ==
    /\ last.callback = "get_pages_amount"
    /\ "x-count" \in DOMAIN last.response.headers
    /\ last.response.headers["x-count"].numeric

\* C1: for a probe response whose x-count is a non-negative integer n,
\* get_pages_amount yields exactly ceil(n / 99) requests, the k-th one for page
\* k with limit 99 and the probe's category slug (so no page is repeated or
\* skipped); 0 gives 0 requests, 99 gives 1, 100, 150 and 198 give 2, 199 gives 3.
C1_PageRequests ==
    PagesCalled =>
        LET n == last.response.headers["x-count"].value
            slug == last.request.meta.category_slug
            out == last.out
            pages == Len(out)
        IN  /\ ~last.raised
            /\ pages * 99 >= n
            /\ (pages - 1) * 99 < n
            /\ \A k \in 1..pages :
                  /\ out[k].url = [endpoint |-> "buyer/v1/product/in",
                                   category_slug |-> slug,
                                   limit_value |-> 99, page_number |-> k]
                  /\ out[k].method = "POST"
                  /\ out[k].callback = "get_remaining_item_data"
                  /\ out[k].meta.category_slug = slug
            /\ (n = 0 => pages = 0)
            /\ (n = 99 => pages = 1)
            /\ (n \in {100, 150, 198} => pages = 2)
            /\ (n = 199 => pages = 3)

C1_Witness ==
    /\ PagesCalled
    /\ last.response.headers["x-count"].value = 199
    /\ Len(last.out) = 3

HierarchyCalled == last.callback = "build_category_hierarchy"

HasAlias(level, segment) == \E k \in 1..Len(level) : level[k]["alias"] = segment
FirstWithAlias(level, segment) ==
    level[CHOOSE k \in 1..Len(level) :
            /\ level[k]["alias"] = segment
            /\ \A j \in 1..(k - 1) : level[j]["alias"] # segment]

\* the sibling list that is current once the first i segments were examined
RECURSIVE LevelAfter(_, _, _)
LevelAfter(menu, segments, i) ==
    IF i = 0 THEN menu
    ELSE LET before == LevelAfter(menu, segments, i - 1) IN
         IF HasAlias(before, segments[i])
         THEN FirstWithAlias(before, segments[i])["items"]
         ELSE before

MatchedAt(menu, segments) ==
    {i \in 1..Len(segments) : HasAlias(LevelAfter(menu, segments, i - 1), segments[i])}

\* C2: on a forest of category nodes build_category_hierarchy never raises, and
\* its result lists, in path order, the title of the node matched by each
\* segment that has a sibling with its alias at the level current when it is
\* examined (a match descends, a miss leaves the level as it is); its length is
\* the number of matched segments.
C2_HierarchyOfMatchedSegments ==
    HierarchyCalled =>
        LET segments == split(last.slug, "/")
            matched == MatchedAt(categories_json, segments)
        IN  /\ ~last.raised
            /\ Len(last.value) = Cardinality(matched)
            /\ \A i \in matched :
                  last.value[Cardinality({j \in matched : j <= i})]
                    = FirstWithAlias(LevelAfter(categories_json, segments, i - 1),
                                     segments[i])["title"]

\* a miss followed by a match that still counts
C2_Witness ==
    /\ HierarchyCalled
    /\ LET segments == split(last.slug, "/")
           matched == MatchedAt(categories_json, segments)
       IN  /\ \E i \in 1..Len(segments), j \in matched : i < j /\ i \notin matched
           /\ Len(last.value) = 1

WellFormedSummary(summary) == "url" \in DOMAIN summary

MenuIsCategoryList(menu) ==
    \A i \in 1..Len(menu) : {"alias", "title", "items"} \subseteq DOMAIN menu[i]

\* C3 (as claimed): on every listing page each summary that has its "url" gets
\* exactly one detail request carrying the category slug, whatever the other
\* summaries of the page look like, and every well-formed detail response
\* yields its record.
C3_BadItemIsLocal ==
    /\ \A page \in page_log :
          \A i \in 1..Len(page.listing) :
              WellFormedSummary(page.listing[i]) =>
                  Cardinality({j \in 1..Len(page.out) :
                      /\ page.out[j].url.item_url = page.listing[i]["url"]
                      /\ page.out[j].callback = "parse"
                      /\ page.out[j].meta.category_slug
                            = page.request.meta.category_slug}) = 1
    /\ (/\ last.callback = "parse"
        /\ MenuIsCategoryList(categories_json)
        /\ last.response.headers = DateHeader
        /\ {"sku", "title", "url"} \subseteq DOMAIN last.response.json)
       => /\ ~last.raised
          /\ [request |-> last.request, url |-> last.item.url] \in scraped

\* C4 (as claimed): when the menu fetch of __init__ did not return a list of
\* category nodes, construction failed and nothing is ever requested or scraped.
C4_InvalidMenuAbortsRun ==
    (/\ menu_response.kind # "none"
     /\ ~(menu_response.kind = "json" /\ MenuIsCategoryList(menu_response.body)))
    => /\ status = "failed"
       /\ ~started
       /\ scheduled = {}
       /\ page_log = {}
       /\ scraped = {}

ParsedItem == last.callback = "parse" /\ ~last.raised

\* C5: in every item parse yields, price.original is the first variant's price;
\* without a special price current = original and sale_tag is null; with one,
\* current is the special price, original > 0 and sale_tag is a string whose
\* number is (original - current) / original * 100; so sale_tag is set exactly
\* when a special price is present.
C5_PriceAndSaleTag ==
    ParsedItem =>
        LET json == last.response.json
            price == last.item.price_data
            original == json["variants"][1]["price"]
            special == json["specialPrice"]
        IN  /\ price.original = original
            /\ (special = Null) => (price.current = original /\ price.sale_tag = Null)
            /\ (special # Null) =>
                  /\ price.current = special[1]["price"]
                  /\ original > 0
                  /\ price.sale_tag # Null
                  /\ LET text == price.sale_tag[1] IN
                     /\ text[1] = "Skidka " /\ text[3] = "%"
                     /\ text[2].den > 0
                     /\ text[2].num * original
                            = (original - price.current) * 100 * text[2].den
            /\ (price.sale_tag # Null) <=> (special # Null)

\* a discount that is no whole percentage: 3 down to 2
C5_Witness ==
    /\ ParsedItem
    /\ last.item.price_data.original = 3
    /\ last.item.price_data.current = 2
    /\ last.item.price_data.sale_tag = Some(<<"Skidka ", [num |-> 100, den |-> 3], "%">>)

\* C6: in every item parse yields, stock.count is the sum of the counts of all
\* its variants and stock.in_stock is true exactly when stock.count > 0.
C6_StockCount ==
    ParsedItem =>
        LET variants == last.response.json["variants"]
            counts == {variants[i]["count"] : i \in 1..Len(variants)}
            total == LET RECURSIVE add(_)
                         add(cs) == IF cs = {} THEN 0
                                    ELSE LET c == CHOOSE x \in cs : TRUE IN
                                         c * Cardinality({i \in 1..Len(variants) :
                                                            variants[i]["count"] = c})
                                         + add(cs \ {c})
                     IN  add(counts)
        IN  /\ last.item.stock.count = total
            /\ last.item.stock.in_stock <=> (last.item.stock.count > 0)

\* several variants, all at zero
C6_Witness ==
    /\ ParsedItem
    /\ Len(last.response.json["variants"]) >= 2
    /\ \A i \in 1..Len(last.response.json["variants"]) :
          last.response.json["variants"][i]["count"] = 0
    /\ last.item.stock.count = 0
    /\ ~last.item.stock.in_stock

HasProperties(json) == "properties" \in DOMAIN json /\ json["properties"] # <<>>

\* C7: in every item parse yields, the keys of the metadata other than the
\* description are those of the first variant outside {id, image, title,
\* properties, count, price, fixPrice}, each with the variant's value, plus
\* country_of_origin exactly when the payload has a non-empty properties list
\* (with the first entry's value); the description is the payload's.
C7_MetadataKeys ==
    ParsedItem =>
        LET json == last.response.json
            first == json["variants"][1]
            values == last.item.metadata._values
            dynamic == DOMAIN first
                        \ {"id", "image", "title", "properties", "count", "price", "fixPrice"}
        IN  /\ DOMAIN values \ {"_description"}
                 = dynamic \cup (IF HasProperties(json) THEN {"country_of_origin"} ELSE {})
            /\ \A k \in dynamic : values[k] = first[k]
            /\ ("country_of_origin" \in DOMAIN values) <=> HasProperties(json)
            /\ HasProperties(json) =>
                  values["country_of_origin"] = json["properties"][1]["value"]
            /\ values["_description"] = json["description"]

\* a variant with fixed and extra keys, its extra keys seen on an earlier item
C7_Witness ==
    /\ ParsedItem
    /\ HasProperties(last.response.json)
    /\ ExtraKeys \cup {"fixPrice", "title"} \subseteq DOMAIN last.response.json["variants"][1]
    /\ ExtraKeys \subseteq last.fields_at_build
    /\ DOMAIN last.item.metadata._values
         = {"_description", "country_of_origin"} \cup ExtraKeys

\* C8 (as claimed): a payload without the videoLink key is handled as the same
\* payload with videoLink null is: where that one yields an item, so does this
\* one, with assets.video null.
C8_MissingVideoLinkIsNull ==
    (/\ last.callback = "parse"
     /\ "videoLink" \notin DOMAIN last.response.json
     /\ ~parse_outcome([last.response EXCEPT
                            !.json = With(last.response.json, "videoLink", Null)],
                       categories_json, hierarchy_cache, fields).raised)
    => /\ ~last.raised
       /\ last.item.assets.video = Null

\* C9 (as claimed): once a slug path was resolved, every later call with it is
\* answered from the cache without walking the forest, however many other slug
\* paths were resolved in between.
C9_NeverWalksAgain ==
    (HierarchyCalled /\ last.between >= 0) => ~last.walked

\* C9 (amended): the cache keeps the 128 most recently used slug paths: a later
\* call with a slug path returns the title list the walk gives, and without
\* walking the forest when fewer than 128 other distinct slug paths were
\* resolved since that slug path was last resolved; the cache never holds more
\* than 128 entries.
C9_CachedWhileRecent ==
    /\ Len(hierarchy_cache) <= 128
    /\ (HierarchyCalled /\ last.between >= 0) =>
          /\ ~last.raised
          /\ last.value = build_category_hierarchy(categories_json, last.slug).value
          /\ (last.between < 128 => ~last.walked)

\* the slug path comes back after 127 others and is still cached
C9_Witness ==
    /\ HierarchyCalled
    /\ last.between = 127
    /\ ~last.walked
    /\ last.value = <<"T1", "T2">>

\* C10 (as claimed): what parse builds for a response does not depend on the
\* items handled before: the MetadataItem it builds starts from the declared
\* fields alone and ends with the fields and extra-field list it would have on
\* the first item of a run.
C10_NoStateAcrossItems ==
    ParsedItem =>
        /\ last.fields_at_build = DeclaredFields
        /\ last.item.metadata
             = parse_outcome(last.response, categories_json, <<>>,
                             DeclaredFields).item.metadata

====
